---- MODULE Spec2Model ----
(***************************************************************************)
(* A model of src/sdl2/surface.rs: the owning handle Surface, the          *)
(* borrowing view SurfaceRef, and the operations both expose over a        *)
(* foreign SDL_Surface.  The foreign library is the environment: each      *)
(* foreign call is an operator that yields the set of outcomes the call    *)
(* can have, and the handlers are translated from the Rust source.         *)
(***************************************************************************)
EXTENDS Integers, Sequences, FiniteSets, TLC

\* ------------------------------------------------------------------ bounds
MaxSurfaces == 2        \* foreign surfaces ever allocated in one behaviour
MaxHandles == 2         \* owning Surface handles ever created
MaxDim == 2             \* largest width/height the allocator can satisfy
MaxLockCalls == 2       \* lock acquisitions followed per surface
MaxRects == 3           \* longest rectangle list handed to fill_rects

\* ------------------------------------------------------- u32 and c_int
\* TLC integers are 32-bit signed, so a u32 is kept as two 16-bit halves.
U32(hi, lo) == [hi |-> hi, lo |-> lo]

U32Ge(a, b) == a.hi > b.hi \/ (a.hi = b.hi /\ a.lo >= b.lo)

\* the literal (1<<31) of the size checks
OneShl31 == U32(2^15, 0)

\* `x as c_int`: two's-complement reinterpretation of the 32 bits
AsCInt(u) ==
    IF u.hi >= 2^15 THEN (u.hi - 2^16) * 2^16 + u.lo
    ELSE u.hi * 2^16 + u.lo

\* dimensions the callers pass: small ones, and the ones around 2^31
SmallDims == {MaxDim}

DimValues ==
    {U32(0, n) : n \in SmallDims}
      \cup {U32(2^15 - 1, 2^16 - 1), U32(2^15, 0), U32(2^16 - 1, 2^16 - 1)}

\* pixels::PixelMasks, reduced to the field that decides the row size
MaskValues == {[bpp |-> 32]}

NULL == 0

SurfIds == 1..MaxSurfaces
HandleIds == 1..MaxHandles

\* ------------------------------------------------------------ rectangles
MkRect(x, y, w, h) == [x |-> x, y |-> y, w |-> w, h |-> h]

None == [some |-> FALSE]
Some(v) == [some |-> TRUE, v |-> v]

\* --------------------------------------------------------------- state
VARIABLES
    surfaces,   \* the foreign heap: SurfIds -> SDL_Surface and its history
    handles,    \* owning handles: HandleIds -> [st, raw]
    views,      \* raw pointers currently borrowed as &SurfaceRef
    ret         \* what the last operation did and returned

vars == <<surfaces, handles, views, ret>>

\* the SDL_Surface flag bit must_lock tests
SDL_RLEACCEL == 2

HasFlag(flags, bit) == (flags \div bit) % 2 = 1
SetFlag(flags, bit) == IF HasFlag(flags, bit) THEN flags ELSE flags + bit
ClearFlag(flags, bit) == IF HasFlag(flags, bit) THEN flags - bit ELSE flags

\* SDL_BlendMode values (SDL_blendmode.h) behind render::BlendMode
BlendModes == {"None", "Blend", "Add", "Mod"}

\* a slot of the foreign heap that was never allocated
NoSurface ==
    [alloc |-> "none", frees |-> 0, w |-> 0, h |-> 0, pitch |-> 0, flags |-> 0,
     locked |-> 0, lockCalls |-> 0, unlockCalls |-> 0,
     clip |-> MkRect(0, 0, 0, 0), colorMod |-> <<255, 255, 255>>,
     alphaMod |-> 255, blendMode |-> 0, colorKey |-> None, painted |-> {}]

\* what SDL_CreateRGBSurface leaves behind on success
FreshSurface(w, h, pitch, flags) ==
    [NoSurface EXCEPT !.alloc = "live", !.w = w, !.h = h, !.pitch = pitch,
                      !.flags = flags, !.clip = MkRect(0, 0, w, h)]

NoHandle == [st |-> "none", raw |-> NULL]

\* results: SdlResult<T> is Ok/Err; a panic unwinds out of the operation
Result(op, kind, val, err, calls, args) ==
    [op |-> op, kind |-> kind, val |-> val, err |-> err, calls |-> calls, args |-> args]

NoRet == Result("init", "Ok", None, "", <<>>, <<>>)

\* the next unused slot of the foreign heap / the next unused handle
Allocated == {s \in SurfIds : surfaces[s].alloc # "none"}
NextSurf == Cardinality(Allocated) + 1
UsedHandles == {k \in HandleIds : handles[k].st # "none"}
NextHandle == Cardinality(UsedHandles) + 1
LiveHandles == {k \in HandleIds : handles[k].st = "live"}

\* ------------------------------------------------- the foreign library
\* Each foreign call yields the outcomes it can have: the pointer or return
\* code handed back, together with the foreign heap it leaves behind.

\* SDL_CalculatePitch: bytes per row, padded to a multiple of four
CalculatePitch(w, bpp) == (((w * (bpp \div 8)) + 3) \div 4) * 4

CanAllocate(w, h) == w \in 0..MaxDim /\ h \in 0..MaxDim /\ NextSurf <= MaxSurfaces

SDL_CreateRGBSurface(heap, w, h, bpp) ==
    {[raw |-> NULL, heap |-> heap]}
      \cup (IF CanAllocate(w, h)
            THEN {[raw |-> NextSurf,
                   heap |-> [heap EXCEPT ![NextSurf] =
                               FreshSurface(w, h, CalculatePitch(w, bpp), 0)]]}
            ELSE {})

SDL_CreateRGBSurfaceFrom(heap, w, h, bpp, pitch) ==
    {[raw |-> NULL, heap |-> heap]}
      \cup (IF CanAllocate(w, h) /\ pitch \in 0..(4 * MaxDim)
            THEN {[raw |-> NextSurf,
                   heap |-> [heap EXCEPT ![NextSurf] =
                               FreshSurface(w, h, pitch, 0)]]}
            ELSE {})

\* SDL_LoadBMP_RW: the stream decides the dimensions of what is decoded
SDL_LoadBMP_RW(heap) ==
    {[raw |-> NULL, heap |-> heap]}
      \cup (IF NextSurf <= MaxSurfaces
            THEN {[raw |-> NextSurf,
                   heap |-> [heap EXCEPT ![NextSurf] =
                               FreshSurface(w, h, CalculatePitch(w, m.bpp), 0)]]
                    : w \in SmallDims, h \in SmallDims, m \in MaskValues}
            ELSE {})

\* SDL_ConvertSurface: a copy of src in the requested format
SDL_ConvertSurface(heap, src, bpp) ==
    {[raw |-> NULL, heap |-> heap]}
      \cup (IF NextSurf <= MaxSurfaces
            THEN {[raw |-> NextSurf,
                   heap |-> [heap EXCEPT ![NextSurf] =
                               FreshSurface(heap[src].w, heap[src].h,
                                            CalculatePitch(heap[src].w, bpp), 0)]]}
            ELSE {})

\* SDL_FreeSurface: a null pointer is ignored
SDL_FreeSurface(heap, raw) ==
    IF raw = NULL THEN heap
    ELSE [heap EXCEPT ![raw].alloc = "freed", ![raw].frees = @ + 1]

\* ------------------------------------------------ construction and drop
\* a null test that never fires
is_null_never(raw) == FALSE

\* `(raw as *mut ()).is_null()`
is_null(raw) == raw = NULL

\* the size check with > in place of >=
ImageTooLarge_gt(width, height) ==
    (U32Ge(width, OneShl31) /\ width # OneShl31)
      \/ (U32Ge(height, OneShl31) /\ height # OneShl31)

\* the size checks of from_pixelmasks and from_data_pixelmasks
ImageTooLarge(width, height) == U32Ge(width, OneShl31) \/ U32Ge(height, OneShl31)

PitchTooLarge(pitch) == U32Ge(pitch, OneShl31)

\* Surface { raw: raw, _marker: PhantomData }
NewHandle(raw) == [handles EXCEPT ![NextHandle] = [st |-> "live", raw |-> raw]]

\* Surface::from_ll
Surface_from_ll(raw) == NewHandle(raw)

\* Ok(Surface { .. }) or Err(get_error()) after a foreign constructor call
Constructed(op, out, call, args) ==
    /\ surfaces' = out.heap
    /\ IF is_null(out.raw)
       THEN /\ ret' = Result(op, "Err", None, "get_error", <<call>>, args)
            /\ UNCHANGED handles
       ELSE /\ NextHandle <= MaxHandles
            /\ handles' = NewHandle(out.raw)
            /\ ret' = Result(op, "Ok", Some(NextHandle), "", <<call>>, args)
    /\ UNCHANGED views

Rejected(op, err, args) ==
    /\ ret' = Result(op, "Err", None, err, <<>>, args)
    /\ UNCHANGED <<surfaces, handles, views>>

from_pixelmasks(op, width, height, masks) ==
    IF ImageTooLarge(width, height)
    THEN Rejected(op, "Image is too large.", <<width, height>>)
    ELSE \E out \in SDL_CreateRGBSurface(surfaces, AsCInt(width), AsCInt(height), masks.bpp) :
            Constructed(op, out, "SDL_CreateRGBSurface", <<width, height>>)

from_data_pixelmasks(op, width, height, pitch, masks) ==
    IF ImageTooLarge(width, height)
    THEN Rejected(op, "Image is too large.", <<width, height, pitch>>)
    ELSE IF PitchTooLarge(pitch)
    THEN Rejected(op, "Pitch is too large.", <<width, height, pitch>>)
    ELSE \E out \in SDL_CreateRGBSurfaceFrom(surfaces, AsCInt(width), AsCInt(height),
                                             masks.bpp, AsCInt(pitch)) :
            Constructed(op, out, "SDL_CreateRGBSurfaceFrom", <<width, height, pitch>>)

\* format.into_masks() either resolves the masks or fails; try! returns the failure
FromPixelmasks ==
    \E width \in DimValues, height \in DimValues, masks \in MaskValues :
        from_pixelmasks("from_pixelmasks", width, height, masks)

New ==
    \E width \in DimValues, height \in DimValues, masks \in MaskValues, resolved \in BOOLEAN :
        IF ~resolved
        THEN Rejected("new", "into_masks", <<width, height>>)
        ELSE from_pixelmasks("new", width, height, masks)

FromDataPixelmasks ==
    \E width \in DimValues, height \in DimValues, pitch \in DimValues, masks \in MaskValues :
        from_data_pixelmasks("from_data_pixelmasks", width, height, pitch, masks)

FromData ==
    \E width \in DimValues, height \in DimValues, pitch \in DimValues,
       masks \in MaskValues, resolved \in BOOLEAN :
        IF ~resolved
        THEN Rejected("from_data", "into_masks", <<width, height, pitch>>)
        ELSE from_data_pixelmasks("from_data", width, height, pitch, masks)

load_bmp_rw(op) ==
    \E out \in SDL_LoadBMP_RW(surfaces) :
        Constructed(op, out, "SDL_LoadBMP_RW", <<>>)

LoadBmpRw == load_bmp_rw("load_bmp_rw")

\* RWops::from_file may fail before anything is decoded
LoadBmp ==
    \E opened \in BOOLEAN :
        IF ~opened
        THEN Rejected("load_bmp", "from_file", <<>>)
        ELSE load_bmp_rw("load_bmp")

\* the surfaces a caller can reach through a live owning handle
Reachable == {handles[k].raw : k \in LiveHandles} \ {NULL}

Convert ==
    \E s \in Reachable, fmt \in MaskValues :
      \E out \in SDL_ConvertSurface(surfaces, s, fmt.bpp) :
        /\ surfaces' = out.heap
        /\ IF is_null(out.raw)
           THEN /\ ret' = Result("convert", "Err", None, "get_error",
                                 <<"SDL_ConvertSurface">>, <<s>>)
                /\ UNCHANGED handles
           ELSE /\ NextHandle <= MaxHandles
                /\ handles' = Surface_from_ll(out.raw)
                /\ ret' = Result("convert", "Ok", Some(NextHandle), "",
                                 <<"SDL_ConvertSurface">>, <<s>>)
        /\ UNCHANGED views

\* Deref / DerefMut / AsRef / AsMut: the handle's pointer seen as a SurfaceRef
Deref ==
    \E k \in LiveHandles :
        /\ handles[k].raw \notin views
        /\ views' = views \cup {handles[k].raw}
        /\ ret' = Result("deref", "Ok", Some(handles[k].raw), "", <<>>, <<k>>)
        /\ UNCHANGED <<surfaces, handles>>

\* a borrow ends; SurfaceRef has no destructor
ReleaseRef ==
    \E v \in views :
        /\ views' = views \ {v}
        /\ ret' = Result("release_ref", "Ok", None, "", <<>>, <<v>>)
        /\ UNCHANGED <<surfaces, handles>>

\* a destructor that forgets the foreign surface
Surface_drop_leak(heap, raw) == heap

\* Drop for Surface; a handle cannot be dropped while it is borrowed
Surface_drop(heap, raw) == SDL_FreeSurface(heap, raw)

Drop ==
    \E k \in LiveHandles :
        /\ handles[k].raw \notin views
        /\ surfaces' = Surface_drop(surfaces, handles[k].raw)
        /\ handles' = [handles EXCEPT ![k].st = "dropped"]
        /\ ret' = Result("drop", "Ok", None, "", <<"SDL_FreeSurface">>, <<k>>)
        /\ UNCHANGED views

InitLife ==
    /\ surfaces = [s \in SurfIds |-> NoSurface]
    /\ handles = [k \in HandleIds |-> NoHandle]
    /\ views = {}
    /\ ret = NoRet

NextLife ==
    \/ New
    \/ FromPixelmasks
    \/ FromData
    \/ FromDataPixelmasks
    \/ LoadBmpRw
    \/ LoadBmp
    \/ Convert
    \/ Deref
    \/ ReleaseRef
    \/ Drop

SpecLife == InitLife /\ [][NextLife]_vars

\* ---------------------------------------------------- construction claims
SizeCheckedOps == {"new", "from_pixelmasks", "from_data", "from_data_pixelmasks"}
ConstructorOps == SizeCheckedOps \cup {"load_bmp_rw", "load_bmp", "convert"}
SizeErrors == {"Image is too large.", "Pitch is too large."}

\* some dimension handed to the last constructor call is >= 2^31
Oversize(args) == \E i \in 1..Len(args) : U32Ge(args[i], OneShl31)

\* C2 as stated: every dimension-taking constructor called with a width,
\* height (or pitch) >= 2^31 returns a size-limit error and has made no
\* foreign call.
C2_SizeErrorAlways ==
    (ret.op \in SizeCheckedOps /\ Oversize(ret.args))
        => (ret.kind = "Err" /\ ret.err \in SizeErrors /\ ret.calls = <<>>)

\* C2 amended: with a width, height (or pitch) >= 2^31 every constructor
\* fails without a surface-creating foreign call; from_pixelmasks and
\* from_data_pixelmasks fail with the size-limit error, new and from_data
\* fail with the size-limit error or, when the format's masks do not
\* resolve, with the mask-resolution error, which is tried first.
C2_SizeErrorUnlessMasksFail ==
    (ret.op \in SizeCheckedOps /\ Oversize(ret.args))
        => /\ ret.kind = "Err"
           /\ ret.calls = <<>>
           /\ ret.op \in {"from_pixelmasks", "from_data_pixelmasks"} => ret.err \in SizeErrors
           /\ ret.op \in {"new", "from_data"} => ret.err \in SizeErrors \cup {"into_masks"}

\* a buffer-aliasing constructor rejected an oversized pitch
C2_Witness ==
    /\ ret.op = "from_data"
    /\ ret.args[3] = OneShl31
    /\ ret.err = "Pitch is too large."

\* C3: every foreign surface is freed at most once; it has exactly one
\* owning handle; it has been freed exactly once if that handle was dropped
\* and not at all while the handle lives, whatever was borrowed or released.
C3_FreedExactlyOnce ==
    /\ \A s \in SurfIds :
          LET owners == {k \in HandleIds : handles[k].st # "none" /\ handles[k].raw = s} IN
          /\ surfaces[s].frees <= 1
          /\ surfaces[s].alloc # "none" => Cardinality(owners) = 1
          /\ \A k \in owners :
                /\ handles[k].st = "live" => surfaces[s].frees = 0 /\ surfaces[s].alloc = "live"
                /\ handles[k].st = "dropped" => surfaces[s].frees = 1 /\ surfaces[s].alloc = "freed"
    /\ \A v \in views : surfaces[v].frees = 0

\* one handle was dropped after its borrow ended while another is borrowed
C3_Witness ==
    /\ ret.op = "drop"
    /\ \E k \in HandleIds : handles[k].st = "dropped" /\ surfaces[handles[k].raw].frees = 1
    /\ \E k \in LiveHandles : handles[k].raw \in views

\* C4: every owning handle holds a non-null pointer to an allocated foreign
\* surface; a constructor that returns Ok returns such a handle and one that
\* returns Err returns none, so there are as many handles as surfaces.
C4_HandleNeverNull ==
    /\ \A k \in UsedHandles : handles[k].raw # NULL /\ handles[k].raw \in Allocated
    /\ Cardinality(UsedHandles) = Cardinality(Allocated)
    /\ ret.op \in ConstructorOps =>
          /\ ret.kind = "Ok" => ret.val.some /\ handles[ret.val.v].raw # NULL
          /\ ret.kind = "Err" => ~ret.val.some

\* a conversion failed in the foreign library while a handle exists
C4_Witness ==
    /\ ret.op = "convert"
    /\ ret.kind = "Err"
    /\ ret.err = "get_error"
    /\ LiveHandles # {}

\* ------------------------------------------------------- pixel access
\* one surface just built by from_pixelmasks or from_data_pixelmasks, owned
\* by the first handle: the state every SurfaceRef operation starts from
InitOne ==
    /\ \E w \in 0..MaxDim, h \in 0..MaxDim, aliased \in BOOLEAN :
          surfaces = [s \in SurfIds |->
                        IF s # 1 THEN NoSurface
                        ELSE IF aliased THEN FreshSurface(w, h, w, 0)
                        ELSE FreshSurface(w, h, CalculatePitch(w, 32), 0)]
    /\ handles = [k \in HandleIds |-> IF k = 1 THEN [st |-> "live", raw |-> 1] ELSE NoHandle]
    /\ views = {}
    /\ ret = NoRet

\* SDL_LockSurface: nests; the return code is the environment's
SDL_LockSurface(heap, s) ==
    {[rc |-> -1, heap |-> heap],
     [rc |-> 0, heap |-> [heap EXCEPT ![s].locked = @ + 1, ![s].lockCalls = @ + 1]]}

\* SDL_UnlockSurface
SDL_UnlockSurface(heap, s) ==
    [heap EXCEPT ![s].locked = IF @ > 0 THEN @ - 1 ELSE 0, ![s].unlockCalls = @ + 1]

\* SDL_SetSurfaceRLE
SDL_SetSurfaceRLE(heap, s, flag) ==
    {[rc |-> -1, heap |-> heap],
     [rc |-> 0, heap |-> [heap EXCEPT ![s].flags =
                            IF flag = 1 THEN SetFlag(@, SDL_RLEACCEL)
                            ELSE ClearFlag(@, SDL_RLEACCEL)]]}

\* `self.raw.pitch as usize * (self.raw.h as usize)`
PixelsLen(surf) == surf.pitch * surf.h

\* must_lock: (flags & SDL_RLEACCEL) != 0
must_lock(surf) == HasFlag(surf.flags, SDL_RLEACCEL)

\* a without_lock with the branches swapped
without_lock_swapped(surf) ==
    IF must_lock(surf) THEN Some(PixelsLen(surf)) ELSE None

\* without_lock / without_lock_mut: the view, given by its length
without_lock(surf) ==
    IF must_lock(surf) THEN None ELSE Some(PixelsLen(surf))

\* with_lock / with_lock_mut: lock, run the callback on the view, unlock.
\* A callback that panics unwinds through the handler.
with_lock(op, s, panics) ==
    /\ surfaces[s].lockCalls < MaxLockCalls
    /\ \E out \in SDL_LockSurface(surfaces, s) :
          IF out.rc # 0
          THEN /\ surfaces' = out.heap
               /\ ret' = Result(op, "Panic", None, "could not lock surface",
                                <<"SDL_LockSurface">>, <<s>>)
          ELSE IF panics
          THEN /\ surfaces' = out.heap
               /\ ret' = Result(op, "Panic", Some(PixelsLen(out.heap[s])), "callback",
                                <<"SDL_LockSurface">>, <<s>>)
          ELSE /\ surfaces' = SDL_UnlockSurface(out.heap, s)
               /\ ret' = Result(op, "Ok", Some(PixelsLen(out.heap[s])), "",
                                <<"SDL_LockSurface", "SDL_UnlockSurface">>, <<s>>)
    /\ UNCHANGED <<handles, views>>

WithLock == \E s \in Reachable, panics \in BOOLEAN : with_lock("with_lock", s, panics)

WithLockMut == \E s \in Reachable, panics \in BOOLEAN : with_lock("with_lock_mut", s, panics)

WithoutLock ==
    \E s \in Reachable :
        /\ ret' = Result("without_lock", "Ok", without_lock(surfaces[s]), "", <<>>, <<s>>)
        /\ UNCHANGED <<surfaces, handles, views>>

WithoutLockMut ==
    \E s \in Reachable :
        /\ ret' = Result("without_lock_mut", "Ok", without_lock(surfaces[s]), "", <<>>, <<s>>)
        /\ UNCHANGED <<surfaces, handles, views>>

MustLock ==
    \E s \in Reachable :
        /\ ret' = Result("must_lock", "Ok", Some(must_lock(surfaces[s])), "", <<>>, <<s>>)
        /\ UNCHANGED <<surfaces, handles, views>>

\* enable_RLE / disable_RLE: a failure of the foreign call is a panic
set_RLE(op, s, flag) ==
    \E out \in SDL_SetSurfaceRLE(surfaces, s, flag) :
        /\ surfaces' = out.heap
        /\ ret' = IF out.rc # 0
                  THEN Result(op, "Panic", None, "get_error", <<"SDL_SetSurfaceRLE">>, <<s>>)
                  ELSE Result(op, "Ok", None, "", <<"SDL_SetSurfaceRLE">>, <<s>>)
        /\ UNCHANGED <<handles, views>>

EnableRLE == \E s \in Reachable : set_RLE("enable_RLE", s, 1)

DisableRLE == \E s \in Reachable : set_RLE("disable_RLE", s, 0)

NextLock ==
    \/ WithLock
    \/ WithLockMut
    \/ WithoutLock
    \/ WithoutLockMut
    \/ MustLock
    \/ EnableRLE
    \/ DisableRLE

SpecLock == InitOne /\ [][NextLock]_vars

\* C1 as stated: after any with_lock or with_lock_mut call, however the
\* callback exits, every lock taken has been released: as many unlock calls
\* as lock calls, and no lock held.
C1_LockAlwaysReleased ==
    \A s \in SurfIds :
        surfaces[s].unlockCalls = surfaces[s].lockCalls /\ surfaces[s].locked = 0

\* C8: without_lock and without_lock_mut return a view exactly when
\* must_lock is false, the view is pitch x height bytes long, and neither
\* makes a foreign call (no lock, no unlock).
C8_WithoutLock ==
    ret.op \in {"without_lock", "without_lock_mut"} =>
        LET surf == surfaces[ret.args[1]] IN
        /\ ret.val.some <=> ~must_lock(surf)
        /\ ret.val.some => ret.val.v = surf.pitch * surf.h
        /\ ret.calls = <<>>
        /\ ret.kind = "Ok"

\* a view of a non-empty aliased buffer was handed out without locking, on a
\* surface that has been locked before
C8_Witness ==
    /\ ret.op = "without_lock_mut"
    /\ ret.val.some
    /\ ret.val.v = MaxDim * MaxDim
    /\ surfaces[ret.args[1]].lockCalls > 0

\* ------------------------------------------- colour, alpha and blend mode
\* pixels::Color: two variants, compared variant by variant
RGB(r, g, b) == [tag |-> "RGB", r |-> r, g |-> g, b |-> b, a |-> 255]
RGBA(r, g, b, a) == [tag |-> "RGBA", r |-> r, g |-> g, b |-> b, a |-> a]

ColorValues == {RGB(1, 2, 3), RGB(255, 255, 254), RGBA(1, 2, 3, 4), RGBA(9, 8, 7, 255)}
AlphaValues == {0, 128, 255}

\* `mode as c_int` and FromPrimitive::from_i32 for render::BlendMode
BlendModeAsCInt(m) ==
    CASE m = "None" -> 0 [] m = "Blend" -> 1 [] m = "Add" -> 2 [] m = "Mod" -> 4

BlendModeFromI32(i) ==
    CASE i = 0 -> Some("None") [] i = 1 -> Some("Blend") [] i = 2 -> Some("Add")
      [] i = 4 -> Some("Mod") [] OTHER -> None

SDL_SetSurfaceColorMod(heap, s, r, g, b) ==
    {[rc |-> -1, heap |-> heap],
     [rc |-> 0, heap |-> [heap EXCEPT ![s].colorMod = <<r, g, b>>]]}

\* on failure the out-parameters keep the zeroes they were initialised with
SDL_GetSurfaceColorMod(heap, s) ==
    {[rc |-> -1, r |-> 0, g |-> 0, b |-> 0],
     [rc |-> 0, r |-> heap[s].colorMod[1], g |-> heap[s].colorMod[2],
      b |-> heap[s].colorMod[3]]}

SDL_SetSurfaceAlphaMod(heap, s, alpha) ==
    {[rc |-> -1, heap |-> heap],
     [rc |-> 0, heap |-> [heap EXCEPT ![s].alphaMod = alpha]]}

SDL_GetSurfaceAlphaMod(heap, s) ==
    {[rc |-> -1, alpha |-> 0], [rc |-> 0, alpha |-> heap[s].alphaMod]}

\* a rejected mode leaves the surface as it was or without blending
SDL_SetSurfaceBlendMode(heap, s, mode) ==
    {[rc |-> -1, heap |-> heap],
     [rc |-> -1, heap |-> [heap EXCEPT ![s].blendMode = 0]],
     [rc |-> 0, heap |-> [heap EXCEPT ![s].blendMode = mode]]}

SDL_GetSurfaceBlendMode(heap, s) ==
    {[rc |-> -1, mode |-> 0], [rc |-> 0, mode |-> heap[s].blendMode]}

\* the match of set_color_mod with blue and red exchanged
ColorComponents_bgr(color) == <<color.b, color.g, color.r>>

\* the match of set_color_mod: both variants give up (r, g, b)
ColorComponents(color) == <<color.r, color.g, color.b>>

SetColorMod ==
    \E s \in Reachable, color \in ColorValues :
      LET rgb == ColorComponents(color) IN
      \E out \in SDL_SetSurfaceColorMod(surfaces, s, rgb[1], rgb[2], rgb[3]) :
        /\ surfaces' = out.heap
        /\ ret' = IF out.rc # 0
                  THEN Result("set_color_mod", "Panic", None, "get_error",
                              <<"SDL_SetSurfaceColorMod">>, <<s, color>>)
                  ELSE Result("set_color_mod", "Ok", None, "",
                              <<"SDL_SetSurfaceColorMod">>, <<s, color>>)
        /\ UNCHANGED <<handles, views>>

GetColorMod ==
    \E s \in Reachable :
      \E out \in SDL_GetSurfaceColorMod(surfaces, s) :
        /\ ret' = IF out.rc = 0
                  THEN Result("get_color_mod", "Ok", Some(RGB(out.r, out.g, out.b)), "",
                              <<"SDL_GetSurfaceColorMod">>, <<s>>)
                  ELSE Result("get_color_mod", "Panic", None, "get_error",
                              <<"SDL_GetSurfaceColorMod">>, <<s>>)
        /\ UNCHANGED <<surfaces, handles, views>>

SetAlphaMod ==
    \E s \in Reachable, alpha \in AlphaValues :
      \E out \in SDL_SetSurfaceAlphaMod(surfaces, s, alpha) :
        /\ surfaces' = out.heap
        /\ ret' = IF out.rc # 0
                  THEN Result("set_alpha_mod", "Panic", None, "get_error",
                              <<"SDL_SetSurfaceAlphaMod">>, <<s, alpha>>)
                  ELSE Result("set_alpha_mod", "Ok", None, "",
                              <<"SDL_SetSurfaceAlphaMod">>, <<s, alpha>>)
        /\ UNCHANGED <<handles, views>>

GetAlphaMod ==
    \E s \in Reachable :
      \E out \in SDL_GetSurfaceAlphaMod(surfaces, s) :
        /\ ret' = IF out.rc = 0
                  THEN Result("get_alpha_mod", "Ok", Some(out.alpha), "",
                              <<"SDL_GetSurfaceAlphaMod">>, <<s>>)
                  ELSE Result("get_alpha_mod", "Panic", None, "get_error",
                              <<"SDL_GetSurfaceAlphaMod">>, <<s>>)
        /\ UNCHANGED <<surfaces, handles, views>>

\* a set_blend_mode whose failure is a panic
set_blend_mode_kind_panics(rc) == IF rc = 0 THEN "Ok" ELSE "Panic"

\* the match of set_blend_mode: 0 => Ok(()), _ => Err(get_error())
set_blend_mode_kind(rc) == IF rc = 0 THEN "Ok" ELSE "Err"

SetBlendMode ==
    \E s \in Reachable, mode \in BlendModes :
      \E out \in SDL_SetSurfaceBlendMode(surfaces, s, BlendModeAsCInt(mode)) :
        /\ surfaces' = out.heap
        /\ ret' = Result("set_blend_mode", set_blend_mode_kind(out.rc), None,
                         IF out.rc = 0 THEN "" ELSE "get_error",
                         <<"SDL_SetSurfaceBlendMode">>, <<s, mode>>)
        /\ UNCHANGED <<handles, views>>

\* from_i32(..).unwrap() panics on a value that is no BlendMode
GetBlendMode ==
    \E s \in Reachable :
      \E out \in SDL_GetSurfaceBlendMode(surfaces, s) :
        /\ ret' = IF out.rc = 0
                  THEN IF BlendModeFromI32(out.mode).some
                       THEN Result("get_blend_mode", "Ok", BlendModeFromI32(out.mode), "",
                                   <<"SDL_GetSurfaceBlendMode">>, <<s>>)
                       ELSE Result("get_blend_mode", "Panic", None, "unwrap",
                                   <<"SDL_GetSurfaceBlendMode">>, <<s>>)
                  ELSE Result("get_blend_mode", "Panic", None, "get_error",
                              <<"SDL_GetSurfaceBlendMode">>, <<s>>)
        /\ UNCHANGED <<surfaces, handles, views>>

NextMod ==
    \/ SetColorMod
    \/ GetColorMod
    \/ SetAlphaMod
    \/ GetAlphaMod
    \/ SetBlendMode
    \/ GetBlendMode

SpecMod == InitOne /\ [][NextMod]_vars

\* a successful set by `setter` directly followed by a successful get by
\* `getter` on the same surface
SetThenGet(setter, getter) ==
    /\ ret.op = setter /\ ret.kind = "Ok"
    /\ ret'.op = getter /\ ret'.kind = "Ok"
    /\ ret'.args[1] = ret.args[1]

\* C6 as stated: a set directly followed by the matching get returns exactly
\* the value that was set, for colour modulation, alpha modulation and blend
\* mode.
C6_RoundTripExact ==
    [][/\ SetThenGet("set_color_mod", "get_color_mod") => ret'.val = Some(ret.args[2])
       /\ SetThenGet("set_alpha_mod", "get_alpha_mod") => ret'.val = Some(ret.args[2])
       /\ SetThenGet("set_blend_mode", "get_blend_mode") => ret'.val = Some(ret.args[2])]_vars

\* C6 amended: alpha modulation and blend mode round-trip exactly; after
\* set_color_mod(c), get_color_mod returns Color::RGB with c's red, green
\* and blue, which is c itself exactly when c is an RGB value (the alpha of
\* an RGBA value is dropped).
C6_RoundTripUpToAlpha ==
    [][/\ SetThenGet("set_color_mod", "get_color_mod") =>
             /\ ret'.val = Some(RGB(ret.args[2].r, ret.args[2].g, ret.args[2].b))
             /\ (ret'.val = Some(ret.args[2])) <=> (ret.args[2].tag = "RGB")
       /\ SetThenGet("set_alpha_mod", "get_alpha_mod") => ret'.val = Some(ret.args[2])
       /\ SetThenGet("set_blend_mode", "get_blend_mode") => ret'.val = Some(ret.args[2])]_vars

\* get_color_mod returned a colour that only a set_color_mod can have stored
C6_Witness ==
    /\ ret.op = "get_color_mod"
    /\ ret.kind = "Ok"
    /\ ret.val = Some(RGB(9, 8, 7))
    /\ surfaces[ret.args[1]].alphaMod = 128
    /\ surfaces[ret.args[1]].blendMode = 4

\* ------------------------------------------------------------ clipping
RectEmpty(r) == r.w <= 0 \/ r.h <= 0

Max(a, b) == IF a > b THEN a ELSE b
Min(a, b) == IF a < b THEN a ELSE b

\* SDL_IntersectRect(A, B, result): the truth value and what is left in
\* `result`, which held `old` before the call
SDL_IntersectRect(A, B, old) ==
    IF RectEmpty(A) \/ RectEmpty(B)
    THEN [hit |-> FALSE, rect |-> [old EXCEPT !.w = 0, !.h = 0]]
    ELSE LET x0 == Max(A.x, B.x)
             x1 == Min(A.x + A.w, B.x + B.w)
             y0 == Max(A.y, B.y)
             y1 == Min(A.y + A.h, B.y + B.h)
             r == MkRect(x0, y0, x1 - x0, y1 - y0)
         IN [hit |-> ~RectEmpty(r), rect |-> r]

\* SDL_SetClipRect: a null rectangle selects the whole surface
SDL_SetClipRect(heap, s, rect) ==
    LET full == MkRect(0, 0, heap[s].w, heap[s].h) IN
    IF ~rect.some
    THEN [rc |-> 1, heap |-> [heap EXCEPT ![s].clip = full]]
    ELSE LET i == SDL_IntersectRect(rect.v, full, heap[s].clip) IN
         [rc |-> IF i.hit THEN 1 ELSE 0, heap |-> [heap EXCEPT ![s].clip = i.rect]]

\* SDL_GetClipRect
SDL_GetClipRect(heap, s) == heap[s].clip

\* Rect::from_ll: a negative extent is an error, an empty one is no Rect
Rect_from_ll(raw) ==
    IF raw.w < 0 \/ raw.h < 0 THEN [ok |-> FALSE, val |-> None]
    ELSE IF raw.w = 0 \/ raw.h = 0 THEN [ok |-> TRUE, val |-> None]
    ELSE [ok |-> TRUE, val |-> Some(raw)]

\* rectangles the callers pass: inside, a row, a column, overlapping the
\* edge, outside
RectValues ==
    {MkRect(0, 0, 1, 1), MkRect(0, 1, MaxDim, 1), MkRect(1, 0, 1, MaxDim),
     MkRect(1, 1, MaxDim, MaxDim), MkRect(MaxDim + 1, 0, 1, 1)}

OptRectValues == {None} \cup {Some(r) : r \in RectValues}

SetClipRect ==
    \E s \in Reachable, rect \in OptRectValues :
      LET out == SDL_SetClipRect(surfaces, s, rect) IN
        /\ surfaces' = out.heap
        /\ ret' = Result("set_clip_rect", "Ok", Some(out.rc = 1), "",
                         <<"SDL_SetClipRect">>, <<s, rect>>)
        /\ UNCHANGED <<handles, views>>

\* get_clip_rect: Rect::from_ll(rect).unwrap()
GetClipRect ==
    \E s \in Reachable :
      LET r == Rect_from_ll(SDL_GetClipRect(surfaces, s)) IN
        /\ ret' = IF r.ok
                  THEN Result("get_clip_rect", "Ok", r.val, "", <<"SDL_GetClipRect">>, <<s>>)
                  ELSE Result("get_clip_rect", "Panic", None, "unwrap",
                              <<"SDL_GetClipRect">>, <<s>>)
        /\ UNCHANGED <<surfaces, handles, views>>

\* one surface that has pixels
InitPixels == InitOne /\ surfaces[1].w > 0 /\ surfaces[1].h > 0

NextClip ==
    \/ SetClipRect
    \/ GetClipRect

SpecClip == InitPixels /\ [][NextClip]_vars

\* C9 as stated: get_clip_rect directly after set_clip_rect(None) returns
\* None, and set_clip_rect returns true exactly when the clip rectangle it
\* leaves has non-zero area.
C9_ClipDisabledIsNone ==
    [][/\ (/\ ret.op = "set_clip_rect" /\ ~ret.args[2].some
           /\ ret'.op = "get_clip_rect" /\ ret'.args[1] = ret.args[1])
          => (ret'.kind = "Ok" /\ ret'.val = None)
       /\ ret'.op = "set_clip_rect"
          => (ret'.val.v <=> ~RectEmpty(surfaces'[ret'.args[1]].clip))]_vars

\* ------------------------------------------------------------- filling
\* SDL_FillRect: a failed fill paints nothing; the colour does not decide
\* which rectangles are painted and is left out
SDL_FillRect(heap, s, rect, fails) ==
    IF fails THEN [rc |-> -1, heap |-> heap]
    ELSE [rc |-> 0, heap |-> [heap EXCEPT ![s].painted = @ \cup {rect}]]

\* fill_rect: [kind, heap]
fill_rect(heap, s, rect, fails) ==
    LET out == SDL_FillRect(heap, s, rect, fails) IN
    [kind |-> IF out.rc = 0 THEN "Ok" ELSE "Err", heap |-> out.heap]

\* a fill_rects that goes on after a failed fill and reports it at the end
RECURSIVE fill_rects_goes_on(_, _, _, _, _)
fill_rects_goes_on(heap, s, rects, fails, i) ==
    IF i > Len(rects)
    THEN [kind |-> IF \E j \in 1..Len(rects) : fails[j] THEN "Err" ELSE "Ok",
          heap |-> heap, n |-> i - 1]
    ELSE fill_rects_goes_on(fill_rect(heap, s, rects[i], fails[i]).heap, s, rects, fails, i + 1)

\* fill_rects from the i-th rectangle on: [kind, heap, n] with n the number
\* of fill_rect calls made; fails[j] tells whether the j-th fill fails
RECURSIVE fill_rects(_, _, _, _, _)
fill_rects(heap, s, rects, fails, i) ==
    IF i > Len(rects)
    THEN [kind |-> "Ok", heap |-> heap, n |-> i - 1]
    ELSE LET result == fill_rect(heap, s, rects[i], fails[i]) IN
         IF result.kind = "Err"
         THEN [kind |-> "Err", heap |-> result.heap, n |-> i]
         ELSE fill_rects(result.heap, s, rects, fails, i + 1)

\* the rectangles handed to the fills: the whole surface, or one pixel
FillRectValues == {None, Some(MkRect(0, 0, 1, 1))}

RectLists == UNION {[1..n -> FillRectValues] : n \in 0..MaxRects}

FillRect ==
    \E s \in Reachable, rect \in FillRectValues, fails \in BOOLEAN :
      LET out == fill_rect(surfaces, s, rect, fails) IN
        /\ surfaces' = out.heap
        /\ ret' = Result("fill_rect", out.kind, None,
                         IF out.kind = "Ok" THEN "" ELSE "get_error",
                         <<"SDL_FillRect">>, <<s, <<rect>>, <<fails>>>>)
        /\ UNCHANGED <<handles, views>>

FillRects ==
    \E s \in Reachable, rects \in RectLists :
      \E fails \in [1..Len(rects) -> BOOLEAN] :
        LET out == fill_rects(surfaces, s, rects, fails, 1) IN
        /\ surfaces' = out.heap
        /\ ret' = Result("fill_rects", out.kind, None,
                         IF out.kind = "Ok" THEN "" ELSE "get_error",
                         [j \in 1..out.n |-> "SDL_FillRect"], <<s, rects, fails>>)
        /\ UNCHANGED <<handles, views>>

NextFill ==
    \/ FillRect
    \/ FillRects

SpecFill == InitPixels /\ [][NextFill]_vars

\* the index of the first fill the library fails, or n + 1 if none fails
FirstFailure(fails) ==
    LET bad == {j \in 1..Len(fails) : fails[j]} IN
    IF bad = {} THEN Len(fails) + 1 ELSE CHOOSE j \in bad : \A k \in bad : j <= k

\* C7: fill_rects fills in list order up to the first failing fill: exactly
\* the rectangles before it are painted, no fill is called after it, and the
\* result is that fill's error; with no failure all are painted and the
\* result is Ok.
C7_StopsAtFirstFailure ==
    [][ret'.op = "fill_rects" =>
         LET s == ret'.args[1]
             rects == ret'.args[2]
             f == FirstFailure(ret'.args[3])
         IN /\ surfaces'[s].painted = surfaces[s].painted \cup {rects[j] : j \in 1..(f - 1)}
            /\ Len(ret'.calls) = Min(f, Len(rects))
            /\ f <= Len(rects) => ret'.kind = "Err" /\ ret'.err = "get_error"
            /\ f > Len(rects) => ret'.kind = "Ok"]_vars

\* the second of three fills failed after the first had painted
C7_Witness ==
    /\ ret.op = "fill_rects"
    /\ ret.kind = "Err"
    /\ Len(ret.args[2]) = 3
    /\ Len(ret.calls) = 2
    /\ ret.args[2][1] \in surfaces[ret.args[1]].painted
    /\ ret.args[2][3] \notin surfaces[ret.args[1]].painted

\* ------------------------------------------------------------- blitting
\* one axis of SDL_UpperBlit: the source extent is cut to the source
\* surface, then the destination is cut to the clip rectangle
BlitAxis(hasSrc, sPos, sLen, srcSize, dPos, cPos, cLen) ==
    LET w1 == IF hasSrc THEN Min(sLen, srcSize - sPos) ELSE srcSize
        d1 == cPos - dPos
        w2 == IF d1 > 0 THEN w1 - d1 ELSE w1
        x2 == IF d1 > 0 THEN dPos + d1 ELSE dPos
        d2 == x2 + w2 - cPos - cLen
        w3 == IF d2 > 0 THEN w2 - d2 ELSE w2
    IN [pos |-> x2, len |-> w3]

\* what SDL_UpperBlit leaves in *dstrect (a local rectangle when null)
UpperBlitRect(heap, src, srcrect, dst, dstrect) ==
    LET sr == IF srcrect.some THEN srcrect.v ELSE MkRect(0, 0, heap[src].w, heap[src].h)
        dr == IF dstrect.some THEN dstrect.v ELSE MkRect(0, 0, heap[dst].w, heap[dst].h)
        clip == heap[dst].clip
        ax == BlitAxis(srcrect.some, sr.x, sr.w, heap[src].w, dr.x, clip.x, clip.w)
        ay == BlitAxis(srcrect.some, sr.y, sr.h, heap[src].h, dr.y, clip.y, clip.h)
    IN IF ax.len > 0 /\ ay.len > 0
       THEN MkRect(ax.pos, ay.pos, ax.len, ay.len)
       ELSE MkRect(ax.pos, ay.pos, 0, 0)

\* SDL_UpperBlit: it fails before it touches *dstrect, or in the low-level
\* blit after the clipped rectangle is stored, or it succeeds
SDL_UpperBlit(heap, src, srcrect, dst, dstrect) ==
    LET used == UpperBlitRect(heap, src, srcrect, dst, dstrect)
        untouched == IF dstrect.some THEN dstrect.v ELSE MkRect(0, 0, heap[dst].w, heap[dst].h)
    IN {[rc |-> -1, rect |-> untouched], [rc |-> 0, rect |-> used]}
         \cup (IF RectEmpty(used) THEN {} ELSE {[rc |-> -1, rect |-> used]})

\* one axis of SDL_UpperBlitScaled for a source rectangle inside the source
ScaledAxis(dPos, dLen, cPos, cLen) ==
    LET x0 == Max(dPos - cPos, 0) + cPos
        x1 == Min(dPos + dLen - 1 - cPos, cLen - 1) + cPos
    IN [pos |-> x0, len |-> Max(x1 - x0 + 1, 0)]

UpperBlitScaledRect(heap, src, srcrect, dst, dstrect) ==
    LET sr == IF srcrect.some THEN srcrect.v ELSE MkRect(0, 0, heap[src].w, heap[src].h)
        dr == IF dstrect.some THEN dstrect.v ELSE MkRect(0, 0, heap[dst].w, heap[dst].h)
        clip == heap[dst].clip
        ax == ScaledAxis(dr.x, dr.w, clip.x, clip.w)
        ay == ScaledAxis(dr.y, dr.h, clip.y, clip.h)
    IN IF dr.w = sr.w /\ dr.h = sr.h
       THEN UpperBlitRect(heap, src, srcrect, dst, dstrect)
       ELSE MkRect(ax.pos, ay.pos, ax.len, ay.len)

SDL_UpperBlitScaled(heap, src, srcrect, dst, dstrect) ==
    LET used == UpperBlitScaledRect(heap, src, srcrect, dst, dstrect)
        untouched == IF dstrect.some THEN dstrect.v ELSE MkRect(0, 0, heap[dst].w, heap[dst].h)
    IN {[rc |-> -1, rect |-> untouched], [rc |-> 0, rect |-> used]}
         \cup (IF RectEmpty(used) THEN {} ELSE {[rc |-> -1, rect |-> used]})

\* a blit that hands back the rectangle it was asked for
FinalRect_requested(dst_rect, written) == dst_rect

\* `mut dst_rect` is passed by mutable pointer and returned: Ok(dst_rect)
FinalRect(dst_rect, written) == IF dst_rect.some THEN Some(written) ELSE None

\* source rectangles that lie inside every source surface
InnerRectValues == {None, Some(MkRect(0, 0, 1, 1))}

Blit ==
    \E src \in Reachable, dst \in Reachable, src_rect \in OptRectValues,
       dst_rect \in OptRectValues :
      /\ src # dst
      /\ \E out \in SDL_UpperBlit(surfaces, src, src_rect, dst, dst_rect) :
           ret' = IF out.rc = 0
                  THEN Result("blit", "Ok", FinalRect(dst_rect, out.rect), "",
                              <<"SDL_UpperBlit">>, <<src, src_rect, dst, dst_rect, out.rect>>)
                  ELSE Result("blit", "Err", None, "get_error",
                              <<"SDL_UpperBlit">>, <<src, src_rect, dst, dst_rect, out.rect>>)
      /\ UNCHANGED <<surfaces, handles, views>>

BlitScaled ==
    \E src \in Reachable, dst \in Reachable, src_rect \in InnerRectValues,
       dst_rect \in OptRectValues :
      /\ src # dst
      /\ \E out \in SDL_UpperBlitScaled(surfaces, src, src_rect, dst, dst_rect) :
           ret' = IF out.rc = 0
                  THEN Result("blit_scaled", "Ok", FinalRect(dst_rect, out.rect), "",
                              <<"SDL_UpperBlitScaled">>,
                              <<src, src_rect, dst, dst_rect, out.rect>>)
                  ELSE Result("blit_scaled", "Err", None, "get_error",
                              <<"SDL_UpperBlitScaled">>,
                              <<src, src_rect, dst, dst_rect, out.rect>>)
      /\ UNCHANGED <<surfaces, handles, views>>

\* two surfaces built by from_pixelmasks, each owned by its own handle
InitTwo ==
    /\ \E w \in 1..MaxDim, h \in 1..MaxDim :
          surfaces = [s \in SurfIds |->
                        IF s = 1 THEN FreshSurface(w, h, CalculatePitch(w, 32), 0)
                        ELSE IF s = 2
                        THEN FreshSurface(MaxDim, MaxDim, CalculatePitch(MaxDim, 32), 0)
                        ELSE NoSurface]
    /\ handles = [k \in HandleIds |-> IF k <= 2 THEN [st |-> "live", raw |-> k] ELSE NoHandle]
    /\ views = {}
    /\ ret = NoRet

NextBlit ==
    \/ Blit
    \/ BlitScaled
    \/ SetClipRect

SpecBlit == InitTwo /\ [][NextBlit]_vars

\* r covers no pixel outside the surface
Within(r, surf) ==
    RectEmpty(r) \/ (r.x >= 0 /\ r.y >= 0 /\ r.x + r.w <= surf.w /\ r.y + r.h <= surf.h)

\* r covers no pixel outside the rectangle c
Inside(r, c) ==
    RectEmpty(r) \/ (r.x >= c.x /\ r.y >= c.y /\ r.x + r.w <= c.x + c.w /\ r.y + r.h <= c.y + c.h)

\* the area a blit copies to when nothing is cut: at the requested position;
\* blit takes the size from the source rectangle, blit_scaled from the request
BlitSource(r) ==
    IF r.args[2].some THEN r.args[2].v
    ELSE MkRect(0, 0, surfaces[r.args[1]].w, surfaces[r.args[1]].h)

Uncut(r) ==
    IF r.op = "blit"
    THEN MkRect(r.args[4].v.x, r.args[4].v.y, BlitSource(r).w, BlitSource(r).h)
    ELSE r.args[4].v

\* nothing has to be cut: the source rectangle lies in the source surface
\* and the uncut destination area in the destination's clip rectangle
NothingToCut(r) ==
    /\ ~RectEmpty(Uncut(r))
    /\ Within(BlitSource(r), surfaces[r.args[1]])
    /\ Inside(Uncut(r), surfaces[r.args[3]].clip)

\* C10 as stated: a successful blit or blit_scaled with a destination
\* rectangle returns the rectangle actually used, inside the destination's
\* bounds and equal to the requested one when nothing was clipped; without a
\* destination rectangle it returns None; a failed one returns an error.
C10_ReturnsRequestedOrClipped ==
    ret.op \in {"blit", "blit_scaled"} =>
        /\ (ret.kind = "Ok" /\ ret.args[4].some) =>
              /\ ret.val = Some(ret.args[5])
              /\ Within(ret.val.v, surfaces[ret.args[3]])
              /\ NothingToCut(ret) => ret.val.v = ret.args[4].v
        /\ (ret.kind = "Ok" /\ ~ret.args[4].some) => ret.val = None
        /\ ret.kind # "Ok" => (ret.kind = "Err" /\ ret.val = None /\ ret.err = "get_error")

\* C10 amended: a successful blit or blit_scaled with a destination
\* rectangle returns the rectangle the library left in it, which covers no
\* pixel outside the destination's bounds; when nothing was clipped it is the
\* requested position with, for blit, the size of the source rectangle (the
\* requested width and height are ignored) and, for blit_scaled, the
\* requested size.  Without a destination rectangle the result is None; a
\* failed blit returns the library's error and no rectangle.
C10_ReturnsFinalRect ==
    ret.op \in {"blit", "blit_scaled"} =>
        /\ (ret.kind = "Ok" /\ ret.args[4].some) =>
              /\ ret.val = Some(ret.args[5])
              /\ Within(ret.val.v, surfaces[ret.args[3]])
              /\ NothingToCut(ret) => ret.val.v = Uncut(ret)
        /\ (ret.kind = "Ok" /\ ~ret.args[4].some) => ret.val = None
        /\ ret.kind # "Ok" => (ret.kind = "Err" /\ ret.val = None /\ ret.err = "get_error")

\* a blit asked for a rectangle that reaches over the edge and was handed
\* back a smaller, non-empty one
C10_Witness ==
    /\ ret.op = "blit"
    /\ ret.kind = "Ok"
    /\ ret.args[4] = Some(MkRect(1, 1, MaxDim, MaxDim))
    /\ ret.val.some
    /\ ~RectEmpty(ret.val.v)
    /\ ret.val.v # ret.args[4].v

\* ------------------------------------- palette, colour key, bitmap, raw blits
\* the foreign calls below only hand back a return code
ReturnCodes == {-1, 0}

\* Color::to_u32 and Color::from_u32 of the pixels module
Color_to_u32(color) == <<color.r, color.g, color.b>>
Color_from_u32(key) == RGBA(key[1], key[2], key[3], 255)

SDL_SetColorKey(heap, s, flag, key) ==
    {[rc |-> -1, heap |-> heap],
     [rc |-> 0, heap |-> [heap EXCEPT ![s].colorKey = IF flag = 1 THEN Some(key) ELSE None]]}

\* SDL_GetColorKey fails on a surface without a colour key
SDL_GetColorKey(heap, s) ==
    {[rc |-> -1, key |-> <<0, 0, 0>>]}
      \cup (IF heap[s].colorKey.some THEN {[rc |-> 0, key |-> heap[s].colorKey.v]} ELSE {})

\* the shape shared by the handlers that turn a return code into
\* Ok(()) or Err(get_error())
OkOrErr(op, rc, call, args) ==
    IF rc = 0 THEN Result(op, "Ok", None, "", <<call>>, args)
    ELSE Result(op, "Err", None, "get_error", <<call>>, args)

SetPalette ==
    \E s \in Reachable, rc \in ReturnCodes :
        /\ ret' = OkOrErr("set_palette", rc, "SDL_SetSurfacePalette", <<s>>)
        /\ UNCHANGED <<surfaces, handles, views>>

SetColorKey ==
    \E s \in Reachable, enable \in BOOLEAN, color \in ColorValues :
      \E out \in SDL_SetColorKey(surfaces, s, IF enable THEN 1 ELSE 0, Color_to_u32(color)) :
        /\ surfaces' = out.heap
        /\ ret' = OkOrErr("set_color_key", out.rc, "SDL_SetColorKey", <<s, enable, color>>)
        /\ UNCHANGED <<handles, views>>

GetColorKey ==
    \E s \in Reachable :
      \E out \in SDL_GetColorKey(surfaces, s) :
        /\ ret' = IF out.rc = 0
                  THEN Result("get_color_key", "Ok", Some(Color_from_u32(out.key)), "",
                              <<"SDL_GetColorKey">>, <<s>>)
                  ELSE Result("get_color_key", "Err", None, "get_error",
                              <<"SDL_GetColorKey">>, <<s>>)
        /\ UNCHANGED <<surfaces, handles, views>>

save_bmp_rw(op, s, rc) ==
    /\ ret' = OkOrErr(op, rc, "SDL_SaveBMP_RW", <<s>>)
    /\ UNCHANGED <<surfaces, handles, views>>

SaveBmpRw == \E s \in Reachable, rc \in ReturnCodes : save_bmp_rw("save_bmp_rw", s, rc)

SaveBmp ==
    \E s \in Reachable, rc \in ReturnCodes, opened \in BOOLEAN :
        IF ~opened
        THEN /\ ret' = Result("save_bmp", "Err", None, "from_file", <<>>, <<s>>)
             /\ UNCHANGED <<surfaces, handles, views>>
        ELSE save_bmp_rw("save_bmp", s, rc)

\* lower_blit / lower_blit_scaled: unsafe, no clipping, nothing handed back
LowerBlit ==
    \E src \in Reachable, dst \in Reachable, src_rect \in InnerRectValues,
       dst_rect \in InnerRectValues, rc \in ReturnCodes :
        /\ src # dst
        /\ ret' = OkOrErr("lower_blit", rc, "SDL_LowerBlit", <<src, src_rect, dst, dst_rect>>)
        /\ UNCHANGED <<surfaces, handles, views>>

LowerBlitScaled ==
    \E src \in Reachable, dst \in Reachable, src_rect \in InnerRectValues,
       dst_rect \in InnerRectValues, rc \in ReturnCodes :
        /\ src # dst
        /\ ret' = OkOrErr("lower_blit_scaled", rc, "SDL_LowerBlitScaled",
                          <<src, src_rect, dst, dst_rect>>)
        /\ UNCHANGED <<surfaces, handles, views>>

\* ------------------------------------------------------ failure handling
\* the last operation made a foreign call and that call failed
ForeignFailed(r) ==
    /\ r.kind # "Ok"
    /\ r.calls # <<>>
    /\ r.err \notin {"callback", "unwrap"}

\* a step of operation A in which its foreign call fails
Failing(A) == A /\ ForeignFailed(ret')

\* every operation that has a foreign failure path, with the call failing
NextErr ==
    \/ Failing(New)
    \/ Failing(FromPixelmasks)
    \/ Failing(FromData)
    \/ Failing(FromDataPixelmasks)
    \/ Failing(LoadBmpRw)
    \/ Failing(LoadBmp)
    \/ Failing(Convert)
    \/ Failing(WithLock)
    \/ Failing(WithLockMut)
    \/ Failing(EnableRLE)
    \/ Failing(DisableRLE)
    \/ Failing(SetPalette)
    \/ Failing(SetColorKey)
    \/ Failing(GetColorKey)
    \/ Failing(SetColorMod)
    \/ Failing(GetColorMod)
    \/ Failing(SetAlphaMod)
    \/ Failing(GetAlphaMod)
    \/ Failing(SetBlendMode)
    \/ Failing(GetBlendMode)
    \/ Failing(FillRect)
    \/ Failing(FillRects)
    \/ Failing(Blit)
    \/ Failing(BlitScaled)
    \/ Failing(LowerBlit)
    \/ Failing(LowerBlitScaled)
    \/ Failing(SaveBmpRw)
    \/ Failing(SaveBmp)

\* two surfaces of the same size
InitErr == InitTwo /\ surfaces[1].w = MaxDim /\ surfaces[1].h = MaxDim

SpecErr == InitErr /\ [][NextErr]_vars

ClaimedFatalOps ==
    {"enable_RLE", "disable_RLE", "get_alpha_mod", "get_color_mod", "get_blend_mode",
     "with_lock", "with_lock_mut"}

\* C5 as stated: a foreign failure is a panic in enable_RLE, disable_RLE,
\* get_alpha_mod, get_color_mod, get_blend_mode, with_lock and with_lock_mut,
\* and in every other operation an Err carrying the library's error text.
C5_FatalOpsAsListed ==
    ForeignFailed(ret) =>
        IF ret.op \in ClaimedFatalOps THEN ret.kind = "Panic"
        ELSE ret.kind = "Err" /\ ret.err = "get_error"

\* C5 amended: the operations whose foreign failure is a panic are those
\* listed and also set_color_mod and set_alpha_mod, which return nothing and
\* panic; every other operation with a foreign failure path returns an Err
\* carrying the library's error text.
C5_FatalOpsWithSetters ==
    ForeignFailed(ret) =>
        IF ret.op \in ClaimedFatalOps \cup {"set_color_mod", "set_alpha_mod"}
        THEN ret.kind = "Panic"
        ELSE ret.kind = "Err" /\ ret.err = "get_error"

\* the library rejected a blend mode and the caller got the error back
C5_Witness ==
    /\ ret.op = "set_blend_mode"
    /\ ForeignFailed(ret)
    /\ ret.kind = "Err"

\* ------------------------------------------------------ the whole program
Init == InitLife

Next ==
    \/ NextLife
    \/ NextLock
    \/ NextMod
    \/ NextClip
    \/ NextFill
    \/ NextBlit
    \/ SetPalette
    \/ SetColorKey
    \/ GetColorKey
    \/ SaveBmpRw
    \/ SaveBmp
    \/ LowerBlit
    \/ LowerBlitScaled

Spec == Init /\ [][Next]_vars

====
